---- MODULE Spec2Model ----
\* crab-log: changelog generator.  Model of the pagination engine
\* (get_commits / get_100_commits), the commit parser (Config::build_commit),
\* the classification step (pr_from_commit) and main's aggregation and
\* rendering over BinaryHeap.
EXTENDS Integers, Sequences, FiniteSets, TLC

\* ---------------------------------------------------------------- bounds
\* Largest number of entries in the remote mainline history.
MaxCommits == 3
\* Authored dates are whole seconds 1..MaxDate; "now" is MaxDate.
MaxDate == 3
\* Entries the remote service returns per history query (100 in production).
PageSize == 2
\* Longest label array of the pure-function specification of pr_from_commit
\* (the query asks for labels(first: 10)).
MaxLabels == 3
\* Longest first line, in tokens, of the specification of the parser alone.
MaxLine == 6

VARIABLES
    history,      \* remote service: mainline history entries, newest first
    pc,           \* position of main
    until_date,   \* get_commits: upper bound of the next window
    ret,          \* get_commits: accumulated commits
    requests,     \* log of the history queries issued: window, outcome, raw page
    futs,         \* main: classification futures still pending
    features,     \* main: BinaryHeap of Feature PRs (its backing vector)
    fixes,        \* main: BinaryHeap of BugFix PRs
    improvements, \* main: BinaryHeap of Internal PRs
    ignored,      \* main: BinaryHeap of Ignored PRs
    completions,  \* log of the futures completed, in completion order
    output,       \* standard output: the rendered sections
    cl,           \* pr_from_commit applied to one label array: input and result
    unit          \* one function applied to one drawn input: input and result

vars == <<history, pc, until_date, ret, requests, futs, features, fixes,
          improvements, ignored, completions, output, cl, unit>>

\* ------------------------------------------------------- small utilities
Some(v) == [some |-> TRUE, val |-> v]
NoneInt == [some |-> FALSE, val |-> 0]
NoneSeq == [some |-> FALSE, val |-> <<>>]

Range(s) == {s[i] : i \in 1..Len(s)}

RECURSIVE SeqsUpTo(_, _)
SeqsUpTo(S, n) ==
    IF n = 0 THEN {<<>>}
    ELSE LET shorter == SeqsUpTo(S, n - 1)
         IN shorter \cup {Append(s, x) : s \in {t \in shorter : Len(t) = n - 1}, x \in S}

\* str::find / str::split_once on a token sequence: index of the first
\* occurrence of the token, 0 when there is none.
Find(s, tok) ==
    IF \E i \in 1..Len(s) : s[i] = tok
    THEN CHOOSE i \in 1..Len(s) : s[i] = tok /\ \A j \in 1..(i - 1) : s[j] # tok
    ELSE 0

\* str::trim: whitespace tokens removed from both ends.
RECURSIVE TrimStart(_)
TrimStart(s) == IF Len(s) > 0 /\ s[1] = " " THEN TrimStart(Tail(s)) ELSE s
RECURSIVE TrimEnd(_)
TrimEnd(s) ==
    IF Len(s) > 0 /\ s[Len(s)] = " " THEN TrimEnd(SubSeq(s, 1, Len(s) - 1)) ELSE s
Trim(s) == TrimEnd(TrimStart(s))

\* ------------------------------------------------------------ time
\* date_last_release, the fixed lower bound of every window.
date_last_release == 0
\* Utc::now() at the start of get_commits.
Now == MaxDate
\* chrono's smallest representable DateTime, in seconds (far below any
\* RFC 3339 date, whose years are 0000..9999).
MIN_DATETIME == -1000

\* DateTime::parse_from_rfc3339 on the authoredDate field of an entry.
ParseFromRfc3339(s) == IF s.valid THEN Some(s.secs) ELSE NoneInt

\* Mutant: the subtraction is forgotten.
CheckedSubSigned_NoSub(d, secs) == Some(d)

\* Mutant: the subtraction wraps around below the smallest DateTime.
CheckedSubSigned_Wrapping(d, secs) ==
    IF d - secs < MIN_DATETIME THEN Some(d - secs - 2 * MIN_DATETIME) ELSE Some(d - secs)

\* DateTime::checked_sub_signed(Duration::seconds(secs)).
CheckedSubSigned(d, secs) ==
    IF d - secs < MIN_DATETIME THEN NoneInt ELSE Some(d - secs)

\* ------------------------------------------------------------ parser
\* get_pr_number: text between the first " (#" and the next ")".
get_pr_number(message) ==
    LET i == Find(message, " (#")
    IN IF i = 0 THEN NoneSeq
       ELSE LET right_of_parens == SubSeq(message, i + 1, Len(message))
                j == Find(right_of_parens, ")")
            IN IF j = 0 THEN NoneSeq
               ELSE Some(SubSeq(right_of_parens, 1, j - 1))

NoCommit == [author |-> <<>>, message |-> <<>>, pr_number |-> <<>>, date |-> 0]

\* Config::build_commit on one raw history entry: [ok, commit].
build_commit(value) ==
    LET first_line == value.message[1]
        pr_number == get_pr_number(first_line)
        idx == Find(first_line, " (#")
        date == ParseFromRfc3339(value.authoredDate)
    IN IF ~value.hasLogin THEN [ok |-> FALSE, commit |-> NoCommit]
       ELSE IF ~pr_number.some THEN [ok |-> FALSE, commit |-> NoCommit]
       ELSE IF idx = 0 THEN [ok |-> FALSE, commit |-> NoCommit]
       ELSE IF ~date.some THEN [ok |-> FALSE, commit |-> NoCommit]
       ELSE [ok |-> TRUE,
             commit |-> [author |-> value.login,
                         message |-> Trim(SubSeq(first_line, 1, idx - 1)),
                         pr_number |-> pr_number.val,
                         date |-> date.val]]

\* vec.iter().flat_map(|obj| config.build_commit(obj).ok()).collect()
RECURSIVE BuildAll(_)
BuildAll(vec) ==
    IF Len(vec) = 0 THEN <<>>
    ELSE LET c == build_commit(Head(vec))
         IN (IF c.ok THEN <<c.commit>> ELSE <<>>) \o BuildAll(Tail(vec))

\* char::is_ascii_digit on every token of the pull-request number.
Digits == {"1", "2"}
IsDigits(str) == \A i \in 1..Len(str) : str[i] \in Digits

\* build_commit as compiled with or without debug assertions: the
\* debug_assert! of get_pr_number panics in a debug build when the text
\* between " (#" and ")" is not all digits, and is absent from a release build.
build_commit_with(value, debug_assertions) ==
    LET pr_number == get_pr_number(value.message[1])
        r == build_commit(value)
    IN IF debug_assertions /\ value.hasLogin /\ pr_number.some
          /\ ~IsDigits(pr_number.val)
       THEN [tag |-> "Panic", commit |-> NoCommit]
       ELSE [tag |-> IF r.ok THEN "Ok" ELSE "Err", commit |-> r.commit]

\* ------------------------------------------------------ remote service
\* One raw history entry.  Entry i of the history refers to pull request #i
\* unless its first line carries no reference at all.
RawEntry(i, d, k) ==
    [hasLogin |-> TRUE,
     login |-> IF k = "bot" THEN <<"dependabot", "[bot]">> ELSE <<"alice">>,
     message |-> IF k = "nopr"
                 THEN << <<"Fix">>, <<"body">> >>
                 ELSE << <<"Fix", " (#", ToString(i), ")">>, <<"body">> >>,
     authoredDate |-> [valid |-> k # "baddate", secs |-> d]]

EntryKinds == {"user", "nopr", "baddate", "bot"}

\* Histories the service may hold: newest first by authored date.
Histories ==
    UNION {
        {[i \in 1..n |-> RawEntry(i, ds[i], ks[i])] :
            ds \in {f \in [1..n -> 1..MaxDate] :
                        \A i \in 1..n, j \in 1..n : i < j => f[i] >= f[j]},
            ks \in [1..n -> EntryKinds]}
        : n \in 0..MaxCommits}

\* history(since: .., until: ..): the first PageSize entries of the history
\* whose authored date lies in [since, until].
HistoryQuery(since, until) ==
    LET InWindow(e) == since <= e.authoredDate.secs /\ e.authoredDate.secs <= until
        all == SelectSeq(history, InWindow)
    IN SubSeq(all, 1, IF Len(all) < PageSize THEN Len(all) ELSE PageSize)

\* What can happen to one GraphQL query: the transport fails, the response
\* lacks a field of the navigated path, or the response is complete.
Outcomes == {"ok", "transport", "nav"}

\* ------------------------------------------------------- get_100_commits
Panic == [tag |-> "Panic", res |-> <<>>, new_date |-> 0]
Err == [tag |-> "Err", res |-> <<>>, new_date |-> 0]

\* Mutant: the first raw entry is taken instead of the last.
LastEntry_First(vec) == vec[1]

\* vec.last()
LastEntry(vec) == vec[Len(vec)]

\* get_100_commits from the edges array on: new_date, then the commits.
PageResult(vec) ==
    IF Len(vec) = 0 THEN Err
    ELSE LET parsed == ParseFromRfc3339(LastEntry(vec).authoredDate)
         IN IF ~parsed.some THEN Err
            ELSE LET new_date == CheckedSubSigned(parsed.val, 1)
                 IN IF ~new_date.some THEN Panic
                    ELSE [tag |-> "Ok", res |-> BuildAll(vec),
                          new_date |-> new_date.val]

\* get_100_commits(config, date_last_release, until, crab)
get_100_commits(outcome, until) ==
    IF outcome = "transport" THEN Panic
    ELSE IF outcome = "nav" THEN Err
    ELSE PageResult(HistoryQuery(date_last_release, until))

\* Where get_commits goes after the first call: `?` returns the Err.
FirstPc(r) ==
    CASE r.tag = "Panic" -> "panic"
      [] r.tag = "Err" -> "err"
      [] OTHER -> "loop"

\* The loop breaks on Err and on an empty batch of commits.
LoopStop(r) == r.tag = "Err" \/ (r.tag = "Ok" /\ Len(r.res) = 0)

\* Where get_commits goes after a call in the loop.
LoopPc(r) ==
    CASE r.tag = "Panic" -> "panic"
      [] LoopStop(r) -> "spawn"
      [] OTHER -> "loop"

Request(outcome, until) ==
    [until |-> until, outcome |-> outcome,
     page |-> IF outcome = "ok" THEN HistoryQuery(date_last_release, until) ELSE <<>>]

\* ----------------------------------------------------------- get_commits
\* let (mut ret, mut until_date) = get_100_commits(.., now, ..).await?;
FirstPage ==
    /\ pc = "first"
    /\ \E outcome \in Outcomes :
        LET r == get_100_commits(outcome, Now)
        IN /\ requests' = Append(requests, Request(outcome, Now))
           /\ pc' = FirstPc(r)
           /\ ret' = IF r.tag = "Ok" THEN r.res ELSE ret
           /\ until_date' = IF r.tag = "Ok" THEN r.new_date ELSE until_date
    /\ UNCHANGED <<history, futs, features, fixes, improvements, ignored,
                   completions, output, cl, unit>>

\* One iteration of the loop of get_commits.
LoopPage ==
    /\ pc = "loop"
    /\ \E outcome \in Outcomes :
        LET r == get_100_commits(outcome, until_date)
            stop == LoopStop(r)
        IN /\ requests' = Append(requests, Request(outcome, until_date))
           /\ pc' = LoopPc(r)
           /\ ret' = IF r.tag = "Ok" /\ ~stop THEN ret \o r.res ELSE ret
           /\ until_date' = IF r.tag = "Ok" /\ ~stop THEN r.new_date ELSE until_date
    /\ UNCHANGED <<history, futs, features, fixes, improvements, ignored,
                   completions, output, cl, unit>>

\* -------------------------------------------------------- pr_from_commit
PRKind == {"Feature", "BugFix", "Internal", "Ignored"}

\* let mapping: HashMap<&str, PRKind> = HashMap::from([...]);
mapping == [enhancement |-> "Feature", bug |-> "BugFix", Internal |-> "Internal"]

\* One edge of labels.edges: its node.name when it has one.
Label(name) == [named |-> TRUE, name |-> name]
Unnamed == [named |-> FALSE, name |-> ""]

\* label_array.iter().flat_map(node).flat_map(name).flat_map(as_str)
LabelNames(label_array) ==
    LET Named(e) == e.named
        kept == SelectSeq(label_array, Named)
    IN [i \in 1..Len(kept) |-> kept[i].name]

\* Mutant: the loop keeps going and the last mapped label wins.
RECURSIVE KindOfLabels_LastMatch(_)
KindOfLabels_LastMatch(names) ==
    IF Len(names) = 0 THEN "Ignored"
    ELSE IF names[Len(names)] \in DOMAIN mapping THEN mapping[names[Len(names)]]
    ELSE KindOfLabels_LastMatch(SubSeq(names, 1, Len(names) - 1))

\* The for loop over the label names: returns at the first mapped one.
RECURSIVE KindOfLabels(_)
KindOfLabels(names) ==
    IF Len(names) = 0 THEN "Ignored"
    ELSE IF Head(names) \in DOMAIN mapping THEN mapping[Head(names)]
    ELSE KindOfLabels(Tail(names))

\* pr_from_commit(commit, crab), for one outcome of the labels query.
pr_from_commit(commit, outcome, label_array) ==
    IF outcome = "transport" THEN [tag |-> "Panic", pr |-> [commit |-> commit, kind |-> "Ignored"]]
    ELSE IF outcome = "nav" THEN [tag |-> "Err", pr |-> [commit |-> commit, kind |-> "Ignored"]]
    ELSE [tag |-> "Ok",
          pr |-> [commit |-> commit, kind |-> KindOfLabels(LabelNames(label_array))]]

\* -------------------------------------------------- BinaryHeap<PR>
\* Mutant: the comparison is strict, so equal dates do not compare <=.
Le_Strict(a, b) == a.commit.date < b.commit.date

\* impl Ord for PR / impl Ord for Commit: by commit date alone.
Le(a, b) == a.commit.date <= b.commit.date
Lt(a, b) == a.commit.date < b.commit.date
Ge(a, b) == a.commit.date >= b.commit.date

\* BinaryHeap::sift_up(start, pos); positions are 0-based as in the source,
\* elt is the element held out of the hole at pos.
RECURSIVE SiftUp(_, _, _, _)
SiftUp(data, start, pos, elt) ==
    IF pos > start
    THEN LET parent == (pos - 1) \div 2
         IN IF Le(elt, data[parent + 1])
            THEN [data EXCEPT ![pos + 1] = elt]
            ELSE SiftUp([data EXCEPT ![pos + 1] = data[parent + 1]], start, parent, elt)
    ELSE [data EXCEPT ![pos + 1] = elt]

\* Mutant: the new item is appended without being sifted up.
Push_NoSift(data, item) == Append(data, item)

\* BinaryHeap::push
Push(data, item) == SiftUp(Append(data, item), 0, Len(data), item)

\* BinaryHeap::sift_down_range(pos, end)
RECURSIVE SiftDownRange(_, _, _, _)
SiftDownRange(data, pos, end, elt) ==
    LET child == 2 * pos + 1
        last == IF end >= 2 THEN end - 2 ELSE 0
    IN IF child <= last
       THEN LET c == IF Le(data[child + 1], data[child + 2]) THEN child + 1 ELSE child
            IN IF Ge(elt, data[c + 1])
               THEN [data EXCEPT ![pos + 1] = elt]
               ELSE SiftDownRange([data EXCEPT ![pos + 1] = data[c + 1]], c, end, elt)
       ELSE IF child = end - 1 /\ Lt(elt, data[child + 1])
            THEN [data EXCEPT ![pos + 1] = data[child + 1], ![child + 1] = elt]
            ELSE [data EXCEPT ![pos + 1] = elt]

\* The loop of BinaryHeap::into_sorted_vec: swap the root with the last
\* element of the unsorted range, then sift the new root down.
RECURSIVE SortRange(_, _)
SortRange(data, end) ==
    IF end > 1
    THEN LET e == end - 1
             swapped == [data EXCEPT ![1] = data[e + 1], ![e + 1] = data[1]]
         IN SortRange(SiftDownRange(swapped, 0, e, swapped[1]), e)
    ELSE data

\* Mutant: the heap's backing vector is taken as it is (into_vec).
IntoSortedVec_Unsorted(data) == data

\* BinaryHeap::into_sorted_vec
IntoSortedVec(data) == SortRange(data, Len(data))

\* ------------------------------------------------------------- main
\* str::contains on a token sequence.
Contains(s, needle) == \E i \in 1..Len(s) : s[i] = needle

\* Mutant: the filter lets every commit through.
NotBot_All(com) == TRUE

\* .filter(|com| !com.author.contains("dependabot"))
NotBot(com) == ~Contains(com.author, "dependabot")

\* impl Display for Commit: the fields the bullet is written from.
Display(commit) ==
    [message |-> commit.message, author |-> commit.author,
     pr_number |-> commit.pr_number]

Bullets(sorted) == [i \in 1..Len(sorted) |-> Display(sorted[i].commit)]

\* Mutant: the ignored heap is printed with the internal improvements.
Report_WithIgnored(feats, fxs, imps) ==
    << [heading |-> "### Feature Enhancements", items |-> Bullets(IntoSortedVec(feats))],
       [heading |-> "### Bug Fixes", items |-> Bullets(IntoSortedVec(fxs))],
       [heading |-> "### Internal Improvements",
        items |-> Bullets(IntoSortedVec(imps)) \o Bullets(IntoSortedVec(ignored))] >>

\* The println! calls of main: three sections, each a heading and a bullet
\* per item of the sorted heap.
Report(feats, fxs, imps) ==
    << [heading |-> "### Feature Enhancements", items |-> Bullets(IntoSortedVec(feats))],
       [heading |-> "### Bug Fixes", items |-> Bullets(IntoSortedVec(fxs))],
       [heading |-> "### Internal Improvements", items |-> Bullets(IntoSortedVec(imps))] >>

\* Label arrays the service answers with in the pipeline specification.
SampleLabels ==
    { <<>>, <<Label("wontfix")>>, <<Label("enhancement")>>, <<Label("bug")>>,
      <<Label("Internal"), Label("bug")>> }

\* commits.into_iter().filter(..).map(|commit| pr_from_commit(..)).collect()
Spawn ==
    /\ pc = "spawn"
    /\ futs' = SelectSeq(ret, NotBot)
    /\ pc' = "collect"
    /\ UNCHANGED <<history, until_date, ret, requests, features, fixes,
                   improvements, ignored, completions, output, cl, unit>>

RemoveAt(s, i) == SubSeq(s, 1, i - 1) \o SubSeq(s, i + 1, Len(s))

\* while let Some(re) = futs.next().await { .. }: one future completes, in
\* any order, and its result is put in the matching heap or dropped.
Complete ==
    /\ pc = "collect"
    /\ \E i \in 1..Len(futs), outcome \in Outcomes, label_array \in SampleLabels :
        LET re == pr_from_commit(futs[i], outcome, label_array)
            pr == re.pr
            ok == re.tag = "Ok"
        IN /\ futs' = RemoveAt(futs, i)
           /\ pc' = IF re.tag = "Panic" THEN "panic" ELSE "collect"
           /\ features' = IF ok /\ pr.kind = "Feature" THEN Push(features, pr) ELSE features
           /\ fixes' = IF ok /\ pr.kind = "BugFix" THEN Push(fixes, pr) ELSE fixes
           /\ improvements' = IF ok /\ pr.kind = "Internal"
                              THEN Push(improvements, pr) ELSE improvements
           /\ ignored' = IF ok /\ pr.kind = "Ignored" THEN Push(ignored, pr) ELSE ignored
           /\ completions' = Append(completions,
                                     [commit |-> futs[i], outcome |-> outcome,
                                      kind |-> IF ok THEN pr.kind ELSE "none"])
    /\ UNCHANGED <<history, until_date, ret, requests, output, cl, unit>>

\* Mutant: the sections are printed without waiting for the pending futures.
Render_Early ==
    /\ pc = "collect"
    /\ output' = Report(features, fixes, improvements)
    /\ pc' = "done"
    /\ UNCHANGED <<history, until_date, ret, requests, futs, features, fixes,
                   improvements, ignored, completions, cl, unit>>

\* futs.next() yields None: the counts and the three sections are printed.
Render ==
    /\ pc = "collect"
    /\ Len(futs) = 0
    /\ output' = Report(features, fixes, improvements)
    /\ pc' = "done"
    /\ UNCHANGED <<history, until_date, ret, requests, futs, features, fixes,
                   improvements, ignored, completions, cl, unit>>

\* ------------------------------------------------------ specifications
NoUnit == [tag |-> "none"]
NoClassification == [labels |-> <<>>, outcome |-> "ok", tag |-> "none", kind |-> "none"]

Init ==
    /\ history \in Histories
    /\ pc = "first"
    /\ until_date = Now
    /\ ret = <<>>
    /\ requests = <<>>
    /\ futs = <<>>
    /\ features = <<>>
    /\ fixes = <<>>
    /\ improvements = <<>>
    /\ ignored = <<>>
    /\ completions = <<>>
    /\ output = <<>>
    /\ cl = NoClassification
    /\ unit = NoUnit

Next == FirstPage \/ LoopPage \/ Spawn \/ Complete \/ Render

Spec == Init /\ [][Next]_vars

\* pr_from_commit on its own: the labels query of one commit answers with
\* any label array of at most MaxLabels edges, or fails.
LabelPool ==
    {Label("enhancement"), Label("bug"), Label("Internal"), Label("wontfix"), Unnamed}

OneCommit ==
    [author |-> <<"alice">>, message |-> <<"Fix">>, pr_number |-> <<"1">>, date |-> 1]

InitClassify ==
    /\ history = <<>>
    /\ pc = "classify"
    /\ until_date = Now
    /\ ret = <<>>
    /\ requests = <<>>
    /\ futs = <<>>
    /\ features = <<>>
    /\ fixes = <<>>
    /\ improvements = <<>>
    /\ ignored = <<>>
    /\ completions = <<>>
    /\ output = <<>>
    /\ cl \in {[labels |-> l, outcome |-> o, tag |-> "none", kind |-> "none"] :
                 l \in SeqsUpTo(LabelPool, MaxLabels), o \in Outcomes}
    /\ unit = NoUnit

Classify ==
    /\ pc = "classify"
    /\ cl.tag = "none"
    /\ LET re == pr_from_commit(OneCommit, cl.outcome, cl.labels)
       IN cl' = [cl EXCEPT !.tag = re.tag,
                           !.kind = IF re.tag = "Ok" THEN re.pr.kind ELSE "none"]
    /\ UNCHANGED <<history, pc, until_date, ret, requests, futs, features, fixes,
                   improvements, ignored, completions, output, unit>>

NextClassify == Classify

SpecClassify == InitClassify /\ [][NextClassify]_vars

\* The commit parser on its own: one raw entry whose first line is any
\* sequence of at most MaxLine tokens, compiled either way.
Tokens == {"a", " ", " (#", ")", "1", "2"}

ParserEntry(line, hasLogin, valid) ==
    [hasLogin |-> hasLogin, login |-> <<"alice">>, message |-> <<line, <<"body">> >>,
     authoredDate |-> [valid |-> valid, secs |-> 1]]

ParserInputs ==
    {ParserEntry(line, TRUE, TRUE) : line \in SeqsUpTo(Tokens, MaxLine)}
        \cup {ParserEntry(<<"a", " (#", "1", ")">>, l, v) : l \in BOOLEAN, v \in BOOLEAN}

InitParse ==
    /\ history = <<>>
    /\ pc = "parse"
    /\ until_date = Now
    /\ ret = <<>>
    /\ requests = <<>>
    /\ futs = <<>>
    /\ features = <<>>
    /\ fixes = <<>>
    /\ improvements = <<>>
    /\ ignored = <<>>
    /\ completions = <<>>
    /\ output = <<>>
    /\ cl = NoClassification
    /\ unit \in {[value |-> v, debug_assertions |-> FALSE, tag |-> "none",
                   commit |-> NoCommit] : v \in ParserInputs}

Parse ==
    /\ pc = "parse"
    /\ unit.tag = "none"
    /\ \E debug_assertions \in BOOLEAN :
          LET r == build_commit_with(unit.value, debug_assertions)
          IN unit' = [unit EXCEPT !.debug_assertions = debug_assertions,
                                  !.tag = r.tag, !.commit = r.commit]
    /\ UNCHANGED <<history, pc, until_date, ret, requests, futs, features, fixes,
                   improvements, ignored, completions, output, cl>>

NextParse == Parse

SpecParse == InitParse /\ [][NextParse]_vars

\* One call of get_100_commits on its own, over DateTime values down to the
\* smallest one: the edges array is any page of entries dated within
\* MaxDate seconds of MIN_DATETIME, received on the first call or in the loop.
EarlyPages ==
    UNION {
        {[i \in 1..n |-> RawEntry(i, ds[i], ks[i])] :
            ds \in {f \in [1..n -> MIN_DATETIME..(MIN_DATETIME + MaxDate - 1)] :
                        \A i \in 1..n, j \in 1..n : i < j => f[i] >= f[j]},
            ks \in [1..n -> EntryKinds]}
        : n \in 1..PageSize}

InitPage ==
    /\ history = <<>>
    /\ pc = "page"
    /\ until_date = Now
    /\ ret = <<>>
    /\ requests = <<>>
    /\ futs = <<>>
    /\ features = <<>>
    /\ fixes = <<>>
    /\ improvements = <<>>
    /\ ignored = <<>>
    /\ completions = <<>>
    /\ output = <<>>
    /\ cl = NoClassification
    /\ unit \in {[vec |-> v, first |-> f, tag |-> "none", pc |-> "none",
                   until |-> Now] : v \in EarlyPages, f \in BOOLEAN}

PageStep ==
    /\ pc = "page"
    /\ unit.tag = "none"
    /\ LET r == PageResult(unit.vec)
           continues == r.tag = "Ok" /\ (unit.first \/ ~LoopStop(r))
       IN unit' = [unit EXCEPT !.tag = r.tag,
                               !.pc = IF unit.first THEN FirstPc(r) ELSE LoopPc(r),
                               !.until = IF continues THEN r.new_date ELSE unit.until]
    /\ UNCHANGED <<history, pc, until_date, ret, requests, futs, features, fixes,
                   improvements, ignored, completions, output, cl>>

NextPage == PageStep

SpecPage == InitPage /\ [][NextPage]_vars

\* ================================================================ claims
\* Helpers of the statements below.
Parseable(e) == build_commit(e).ok
CommitOf(e) == build_commit(e).commit
InRet(c) == \E j \in 1..Len(ret) : ret[j] = c
AllFetchesOk == \A n \in 1..Len(requests) : requests[n].outcome = "ok"
PageDates(page) == {page[i].authoredDate.secs : i \in 1..Len(page)}
MinOf(S) == CHOOSE d \in S : \A e \in S : d <= e

\* Parsed commits of the pages received in requests 1..n, in request order.
RECURSIVE ConcatParsed(_)
ConcatParsed(n) ==
    IF n = 0 THEN <<>> ELSE ConcatParsed(n - 1) \o BuildAll(requests[n].page)

\* get_commits has returned Ok(ret) and main has not moved on yet.
Returned == pc = "spawn"
\* main ended inside get_commits: Err(()) through `?`, or a panic in a fetch.
FetchAborted ==
    \/ pc = "err"
    \/ pc = "panic" /\ Len(requests) > 0 /\ requests[Len(requests)].outcome = "transport"

\* C1: completeness of get_commits.  When no fetch fails, every parseable
\* commit of the history authored in (date_last_release, now] is in the
\* returned sequence.  Stated for histories all of whose entries parse, so
\* that only the paging itself is in play.
C1_Complete ==
    (Returned /\ AllFetchesOk /\ \A k \in 1..Len(history) : Parseable(history[k]))
        => \A k \in 1..Len(history) :
              (date_last_release < history[k].authoredDate.secs
                  /\ history[k].authoredDate.secs <= Now)
                  => InRet(CommitOf(history[k]))

\* C2: duplicate-freedom.  The window of request n+1 ends strictly before
\* every entry of page n, and no commit occurs twice in the accumulated
\* sequence.
C2_NoDuplicates ==
    /\ \A n \in 1..(Len(requests) - 1) :
          \A d \in PageDates(requests[n].page) : requests[n + 1].until < d
    /\ \A i \in 1..Len(ret), j \in 1..Len(ret) : i # j => ret[i] # ret[j]

\* Two pages were appended to the result.
C2_Witness ==
    /\ Returned
    /\ Len(requests) >= 3
    /\ Len(BuildAll(requests[1].page)) > 0
    /\ Len(BuildAll(requests[2].page)) > 0
    /\ Len(ret) = Len(BuildAll(requests[1].page)) + Len(BuildAll(requests[2].page))

\* C3: window monotonicity.  For successive requests n and n+1, the upper
\* bound decreases strictly and the new one is the earliest authored date of
\* page n minus one second.
C3_WindowMonotone ==
    \A n \in 1..(Len(requests) - 1) :
        /\ requests[n].outcome = "ok"
        /\ Len(requests[n].page) > 0
        /\ requests[n + 1].until < requests[n].until
        /\ requests[n + 1].until = MinOf(PageDates(requests[n].page)) - 1

\* A second request follows a page whose entries have different dates.
C3_Witness ==
    /\ Len(requests) >= 2
    /\ Cardinality(PageDates(requests[1].page)) > 1

\* C4: pagination termination.  When the last page received is empty,
\* get_commits has returned the concatenation of the parsed pages.
C4_ConcatOfPages ==
    (/\ Len(requests) > 0
     /\ requests[Len(requests)].outcome = "ok"
     /\ Len(requests[Len(requests)].page) = 0)
        => /\ ~FetchAborted
           /\ ret = ConcatParsed(Len(requests))

\* C5: best-effort pagination.  When the last fetch failed, get_commits
\* still returns, with the commits of the pages before it.
C5_BestEffort ==
    (Len(requests) > 0 /\ requests[Len(requests)].outcome # "ok")
        => /\ ~FetchAborted
           /\ ret = ConcatParsed(Len(requests) - 1)

\* C6: classification result.  The kind is the one mapped to the first
\* label, in the order returned, that is enhancement, bug or Internal, and
\* Ignored when there is none.
C6_FirstRecognized ==
    cl.tag = "Ok" =>
        LET L == cl.labels
            Recognized(i) ==
                L[i].named /\ L[i].name \in {"enhancement", "bug", "Internal"}
        IN IF \E i \in 1..Len(L) : Recognized(i)
           THEN LET f == CHOOSE i \in 1..Len(L) :
                            Recognized(i) /\ \A j \in 1..(i - 1) : ~Recognized(j)
                IN cl.kind = CASE L[f].name = "enhancement" -> "Feature"
                               [] L[f].name = "bug" -> "BugFix"
                               [] OTHER -> "Internal"
           ELSE cl.kind = "Ignored"

\* Labels Internal, bug in that order were classified Internal.
C6_Witness ==
    /\ cl.tag = "Ok"
    /\ cl.labels = <<Label("Internal"), Label("bug")>>
    /\ cl.kind = "Internal"

\* The PR a completion produced, and the bullets of the whole report.
PROf(done) == [commit |-> done.commit, kind |-> done.kind]
Count(seq, x) == Cardinality({i \in 1..Len(seq) : seq[i] = x})
AllBullets == UNION {Range(output[s].items) : s \in 1..Len(output)}
InSomeHeap(c) ==
    \E h \in {features, fixes, improvements, ignored} :
        \E i \in 1..Len(h) : h[i].commit = c

\* C7: a failed label query discards only its own commit.  The run goes on
\* (it reaches the collection loop's end), and the commit is in no group and
\* nowhere in the output.
C7_FailureAbsorbed ==
    \A n \in 1..Len(completions) :
        completions[n].outcome # "ok"
            => /\ pc \in {"collect", "done"}
               /\ ~InSomeHeap(completions[n].commit)
               /\ Display(completions[n].commit) \notin AllBullets

\* C8: every rendered section lists its items in non-decreasing commit date.
DateOfBullet(b) == (CHOOSE c \in Range(ret) : Display(c) = b).date

C8_SectionsSorted ==
    pc = "done" =>
        \A s \in 1..Len(output) :
            \A i \in 1..Len(output[s].items), j \in 1..Len(output[s].items) :
                i < j => DateOfBullet(output[s].items[i]) <= DateOfBullet(output[s].items[j])

\* Items dated d1 < d2 < d3 arrived as item3, item1, item2 and were
\* rendered in one section as item1, item2, item3.
C8_Witness ==
    /\ pc = "done"
    /\ Len(completions) = 3
    /\ completions[1].commit.date > completions[3].commit.date
    /\ completions[3].commit.date > completions[2].commit.date
    /\ \E s \in 1..Len(output) :
          output[s].items = <<Display(completions[2].commit),
                              Display(completions[3].commit),
                              Display(completions[1].commit)>>

\* C9: partition and rendering.  Every classified PR is in exactly the heap
\* of its kind; the report is the three sections in the fixed order, each
\* holding exactly the PRs of its kind once, and nothing of kind Ignored and
\* no entry that did not parse.
KindOfSection == <<"Feature", "BugFix", "Internal">>

C9_Partition ==
    /\ \A i \in 1..Len(features) : features[i].kind = "Feature"
    /\ \A i \in 1..Len(fixes) : fixes[i].kind = "BugFix"
    /\ \A i \in 1..Len(improvements) : improvements[i].kind = "Internal"
    /\ \A i \in 1..Len(ignored) : ignored[i].kind = "Ignored"
    /\ \A n \in 1..Len(completions) :
          completions[n].outcome = "ok" =>
              Count(features, PROf(completions[n])) + Count(fixes, PROf(completions[n]))
                + Count(improvements, PROf(completions[n]))
                + Count(ignored, PROf(completions[n])) = 1
    /\ pc = "done" =>
          /\ [s \in 1..Len(output) |-> output[s].heading]
                = <<"### Feature Enhancements", "### Bug Fixes",
                    "### Internal Improvements">>
          /\ \A s \in 1..Len(output) :
                /\ \A n \in 1..Len(completions) :
                      Count(output[s].items, Display(completions[n].commit))
                        = IF completions[n].outcome = "ok"
                             /\ completions[n].kind = KindOfSection[s]
                          THEN 1 ELSE 0
                /\ \A b \in Range(output[s].items) :
                      \E n \in 1..Len(completions) : Display(completions[n].commit) = b
          /\ \A k \in 1..Len(history) :
                ~Parseable(history[k])
                    => \A b \in AllBullets : b.pr_number # <<ToString(k)>>

\* A run with a Feature, a BugFix and an entry without a pull-request
\* reference has been rendered.
C9_Witness ==
    /\ pc = "done"
    /\ Len(features) = 1
    /\ Len(fixes) = 1
    /\ Len(improvements) = 0
    /\ \E k \in 1..Len(history) : ~Parseable(history[k])
    /\ Len(output[1].items) = 1
    /\ Len(output[2].items) = 1

\* C10: an entry that does not parse is dropped alone.  For every page
\* received, the run has not failed and every parseable entry of the page is
\* in the result.
C10_DropOnlyTheEntry ==
    \A n \in 1..Len(requests) :
        (requests[n].outcome = "ok" /\ Len(requests[n].page) > 0)
            => /\ pc # "err"
               /\ \A i \in 1..Len(requests[n].page) :
                     Parseable(requests[n].page[i])
                         => InRet(CommitOf(requests[n].page[i]))

\* C11: a page with raw entries none of which parses does not end the
\* pagination: after such a page the next window is still requested.
\* Stated for pages whose entries all carry a valid date, so that only the
\* missing pull-request reference is in play.
C11_ContinuesAfterUnparsedPage ==
    (/\ Len(requests) > 0
     /\ requests[Len(requests)].outcome = "ok"
     /\ Len(requests[Len(requests)].page) > 0
     /\ \A i \in 1..Len(requests[Len(requests)].page) :
           /\ ~Parseable(requests[Len(requests)].page[i])
           /\ requests[Len(requests)].page[i].authoredDate.valid)
        => pc = "loop"

\* C12: empty history.  When the first page is empty, get_commits returns
\* the empty sequence and the run goes on to render three empty sections.
C12_EmptyHistory ==
    (/\ Len(requests) = 1
     /\ requests[1].outcome = "ok"
     /\ Len(requests[1].page) = 0)
        => /\ pc \in {"spawn", "collect", "done"}
           /\ ret = <<>>
           /\ pc = "done" => \A s \in 1..Len(output) : output[s].items = <<>>

\* C13: every Commit the parser produces has a pr_number made of ASCII
\* decimal digits only.
C13_PrNumberDigits ==
    unit.tag = "Ok" => IsDigits(unit.commit.pr_number)

\* C14: for a first line that ends with a "(#<number>)" token, pr_number is
\* the number of that trailing token and message is the line without it,
\* trimmed, whatever precedes the token.  Stated for commits whose parsed
\* pr_number is a non-empty digit string, so that only the choice of the
\* token is in play.
C14_TrailingToken ==
    (unit.tag = "Ok" /\ Len(unit.commit.pr_number) > 0
        /\ IsDigits(unit.commit.pr_number)) =>
        LET line == unit.value.message[1]
        IN \A k \in 1..Len(line) :
              (/\ line[k] = " (#"
               /\ k + 1 < Len(line)
               /\ line[Len(line)] = ")"
               /\ IsDigits(SubSeq(line, k + 1, Len(line) - 1)))
                  => /\ unit.commit.pr_number = SubSeq(line, k + 1, Len(line) - 1)
                     /\ unit.commit.message = Trim(SubSeq(line, 1, k - 1))

\* Position of a bullet's PR in the completion order.
Arrival(b) == CHOOSE n \in 1..Len(completions) : Display(completions[n].commit) = b

C16_StageOrder ==
    /\ pc \in {"first", "loop"}
          => (Len(futs) = 0 /\ Len(completions) = 0 /\ output = <<>>)
    /\ \A n \in 1..(Len(requests) - 1) :
          /\ requests[n].outcome = "ok"
          /\ Len(requests[n].page) > 0
          /\ requests[n + 1].until
                = ParseFromRfc3339(LastEntry(requests[n].page).authoredDate).val - 1
    /\ output # <<>>
          => (Len(futs) = 0 /\ Len(completions) = Len(SelectSeq(ret, NotBot)))

\* A run with three page requests and two classifications has printed its
\* report.
C16_Witness ==
    /\ pc = "done"
    /\ Len(requests) >= 3
    /\ Len(completions) >= 2
    /\ output # <<>>

\* C17: no silent time wrap.  When the last raw entry's date minus one
\* second is not representable, the run aborts: the call is neither an Ok
\* with some other until nor a recoverable Err, on the first page and in
\* the loop alike.
C17_UnderflowAborts ==
    (/\ unit.tag # "none"
     /\ LastEntry(unit.vec).authoredDate.valid
     /\ LastEntry(unit.vec).authoredDate.secs - 1 < MIN_DATETIME)
        => /\ unit.tag = "Panic"
           /\ unit.pc = "panic"
           /\ unit.until = Now

\* A page whose last entry is dated at the smallest DateTime was received.
C17_Witness ==
    /\ unit.tag = "Panic"
    /\ LastEntry(unit.vec).authoredDate.valid
    /\ LastEntry(unit.vec).authoredDate.secs = MIN_DATETIME

\* Commits whose classification was launched: pending or completed.
Launched == futs \o [n \in 1..Len(completions) |-> completions[n].commit]
IsBot(author) == Contains(author, "dependabot")

\* C18: bot filtering.  No classification is launched for a commit whose
\* author contains "dependabot", and it is in no group and not in the
\* output; every other commit returned by pagination gets exactly one.
C18_BotFiltering ==
    /\ \A c \in Range(Launched) : ~IsBot(c.author)
    /\ \A h \in {features, fixes, improvements, ignored} :
          \A i \in 1..Len(h) : ~IsBot(h[i].commit.author)
    /\ \A b \in AllBullets : ~IsBot(b.author)
    /\ (pc \in {"collect", "done"} \/ (pc = "panic" /\ ~FetchAborted))
          => \A c \in Range(ret) : Count(Launched, c) = IF IsBot(c.author) THEN 0 ELSE 1

\* A run with a dependabot commit and a rendered user commit has ended.
C18_Witness ==
    /\ pc = "done"
    /\ \E c \in Range(ret) : IsBot(c.author)
    /\ \E c \in Range(ret) : ~IsBot(c.author) /\ Display(c) \in AllBullets

\* The PRs of one kind among the completions, and their number dated
\* before a given PR.
Classified(kind) ==
    {completions[n].commit : n \in {m \in 1..Len(completions) :
        completions[m].outcome = "ok" /\ completions[m].kind = kind}}
Rank(c, S) == Cardinality({d \in S : d.date < c.date})
HeapCommits(h) == {h[i].commit : i \in 1..Len(h)}

\* C19: interleaving independence.  With pairwise distinct dates, the
\* groups and the report are fixed by which commit got which kind: each
\* group holds the commits of its kind, and each section lists them by
\* date, whatever the completion order was.
C19_OrderIndependent ==
    (pc = "done"
        /\ \A i \in 1..Len(ret), j \in 1..Len(ret) : i # j => ret[i].date # ret[j].date)
        => /\ HeapCommits(features) = Classified("Feature")
           /\ HeapCommits(fixes) = Classified("BugFix")
           /\ HeapCommits(improvements) = Classified("Internal")
           /\ HeapCommits(ignored) = Classified("Ignored")
           /\ \A s \in 1..Len(output) :
                 /\ Len(output[s].items) = Cardinality(Classified(KindOfSection[s]))
                 /\ \A c \in Classified(KindOfSection[s]) :
                       output[s].items[Rank(c, Classified(KindOfSection[s])) + 1]
                           = Display(c)

\* Three PRs of one kind with distinct dates completed newest first and
\* were rendered oldest first.
C19_Witness ==
    /\ pc = "done"
    /\ Len(completions) = 3
    /\ completions[1].commit.date > completions[2].commit.date
    /\ completions[2].commit.date > completions[3].commit.date
    /\ \E s \in 1..Len(output) :
          output[s].items = <<Display(completions[3].commit),
                              Display(completions[2].commit),
                              Display(completions[1].commit)>>

====
